---- MODULE Spec2Model ----
(***************************************************************************)
(* Order-lifecycle state machine of one ScalpAlgo instance (one symbol),   *)
(* together with the brokerage it talks to: the broker's order book for    *)
(* the symbol, the held quantity, and the trade-update stream that feeds   *)
(* on_order_update.  Prices are in cents, time in minutes since midnight   *)
(* (America/New_York).  Every handler is one atomic action: the handlers   *)
(* are synchronous calls made from the single asyncio loop.                *)
(*                                                                         *)
(* Spec follows one machine and its brokerage in detail.  LoopSpec follows *)
(* main's event loop over the whole fleet, a handler being the sequence of *)
(* brokerage calls it makes.  SignalSpec applies _calc_buy_signal to bar   *)
(* histories.                                                              *)
(***************************************************************************)
EXTENDS Integers, Sequences, FiniteSets, TLC

VARIABLES
    state,      \* self._state
    order,      \* self._order: id of the cached order, NoOrder for None
    position,   \* self._position: cached snapshot, NoPosition for None
    bars,       \* self._bars: the closes of the bar history
    now,        \* wall clock, minutes since midnight
    orders,     \* brokerage: every order of the symbol, indexed by order id
    held,       \* brokerage: quantity of the symbol held
    stream,     \* trade updates emitted by the brokerage, not yet delivered
    hist,       \* record of the last handler invocation (history variable)
    alive,      \* main: loop.run_until_complete has not returned or raised
    pending,    \* Stream: per symbol, the kinds of message received, not yet
                \* dispatched
    active,     \* the handler invocations that have started and not ended
    sweep,      \* periodic: the symbols its for loop has still to check
    failed,     \* the symbols in whose handling an exception went uncaught
    signal      \* SignalSpec: whether _calc_buy_signal was called on bars, and
                \* what it returned

machine == <<state, order, position, now, orders, held, stream, hist>>
loop == <<alive, pending, active, sweep, failed>>

vars == <<machine, bars, loop, signal>>

----------------------------------------------------------------------------
(* Bounds of the model *)

MaxOrders == 3      \* orders the brokerage accepts in one run
MaxStream == 2      \* trade updates in flight
MaxBars == 21       \* length of the bar history
OpenSpan == 3       \* the run starts this many minutes before the cutoff
CloseSpan == 0      \* and ends this many minutes after it

(* Program constants *)

Cutoff == 955       \* pd.Timestamp('15:55').time(), in minutes
StaleAfter == 2     \* pd.Timedelta('2 min')
Window == 20        \* rolling(20)
MinBars == 21       \* len(self._bars) < 21
MinIncrement == 1   \* cost_basis + 0.01, in cents
Lot == 2000 * 100   \* --lot default 2000, in cents

(* Input domains *)

SeedBars == 19                  \* bars of the day already fetched by get_bars
SeedClose == 100
Closes == {99, 101}             \* close of an incoming bar
Prices == {90000, 100000}       \* last-trade price
EntryPrices == {95000}          \* average entry price of a position

States == {"TO_BUY", "BUY_SUBMITTED", "TO_SELL", "SELL_SUBMITTED"}
Events == {"fill", "partial_fill", "canceled", "rejected"}

NoOrder == 0
NoPosition == [qty |-> 0, avg_entry_price |-> 0]

Max(a, b) == IF a >= b THEN a ELSE b

----------------------------------------------------------------------------
(* Brokerage *)

Live(o) == o.status = "live"
LiveIds(os) == {i \in 1..Len(os) : Live(os[i])}

NewOrder(side, qty, at) ==
    [side |-> side, qty |-> qty, filled |-> 0, submitted_at |-> at,
     status |-> "live"]

(* A trade update carries its event and the order it is about *)
Update(event, id, os) == [event |-> event, id |-> id, side |-> os[id].side]

(* The brokerage's archive: of an order that is filled, canceled or         *)
(* rejected only the side, the submission time and the status can still be  *)
(* read, and only through the machine's cached order or an update in        *)
(* flight; an order nobody refers to any more is kept as Gone.              *)
Gone ==
    [side |-> "-", qty |-> 0, filled |-> 0, submitted_at |-> 0,
     status |-> "gone"]

Referenced(i, ord, strm) ==
    i = ord \/ \E k \in 1..Len(strm) : strm[k].id = i

Archive(os, ord, strm) ==
    [i \in 1..Len(os) |->
        IF Live(os[i]) THEN os[i]
        ELSE IF Referenced(i, ord, strm)
        THEN [os[i] EXCEPT !.qty = 0, !.filled = 0]
        ELSE Gone]

(* list_orders(): the open orders, newest first *)
list_orders(os) ==
    IF LiveIds(os) = {} THEN NoOrder
    ELSE CHOOSE i \in LiveIds(os) : \A j \in LiveIds(os) : j <= i

(* list_positions() / get_position(): the position of the symbol *)
BrokerPosition(h, avg) ==
    IF h = 0 THEN NoPosition ELSE [qty |-> h, avg_entry_price |-> avg]

----------------------------------------------------------------------------
(* Record of one handler invocation *)

(* A call of the brokerage API: whether it returned (ok) or raised, its     *)
(* arguments, the last-trade price the handler had read (price), and the    *)
(* machine's state, cached order and cached position when it was made.      *)
ApiCall(api, ok, st) ==
    [api |-> api, ok |-> ok, st |-> st, side |-> "-", type |-> "-",
     qty |-> 0, limit_price |-> 0, id |-> 0, price |-> 0,
     order |-> NoOrder, position |-> NoPosition]

SubmitCall(ok, c, side, type, qty, limit, price) ==
    [api |-> "submit_order", ok |-> ok, st |-> c.state, side |-> side,
     type |-> type, qty |-> qty, limit_price |-> limit, id |-> 0,
     price |-> price, order |-> c.order, position |-> c.position]

CancelCall(ok, st, id) ==
    [ApiCall("cancel_order", ok, st) EXCEPT !.id = id]

NoHist ==
    [op |-> "env", event |-> "-", id |-> 0, side |-> "-",
     pre |-> [state |-> "-", order |-> NoOrder, stale |-> FALSE],
     calls |-> <<>>, trans |-> <<>>, raised |-> FALSE]

(* The machine and the brokerage as a handler sees and changes them *)
Ctx ==
    [state |-> state, order |-> order, position |-> position,
     orders |-> orders, stream |-> stream,
     calls |-> <<>>, trans |-> <<>>, raised |-> FALSE]

Call(c, rec) == [c EXCEPT !.calls = Append(@, rec)]
Raise(c) == [c EXCEPT !.raised = TRUE]

(* What the brokerage answers during one handler invocation: the last-trade *)
(* price, the average entry price of the position, and the call that fails  *)
(* (a handler ends at the first call that raises, so one is enough).        *)
Fails ==
    {"none", "get_last_trade", "get_position", "get_order", "cancel_order",
     "submit_order"}

Inputs == [price : Prices, avg : EntryPrices, fail : Fails]

Answers(fails) == {in \in Inputs : in.fail \in fails}

----------------------------------------------------------------------------
(* ScalpAlgo *)

(* init_state with an open order taken for a buy whatever is held *)
init_state_order_first(o, p) ==
    IF o # NoOrder THEN "BUY_SUBMITTED"
    ELSE IF p # NoPosition THEN "TO_SELL" ELSE "TO_BUY"

(* _init_state: reconcile with the live orders and positions of the symbol *)
init_state(o, p) ==
    IF p # NoPosition
    THEN IF o = NoOrder THEN "TO_SELL" ELSE "SELL_SUBMITTED"
    ELSE IF o = NoOrder THEN "TO_BUY" ELSE "BUY_SUBMITTED"

outofmarket == now >= Cutoff

transition(c, new_state) ==
    [c EXCEPT !.state = new_state,
              !.trans = Append(@, <<c.state, new_state>>)]

(* self._api.submit_order(...) accepted: the brokerage books a live order *)
Accept(c, side, type, qty, limit, price) ==
    LET booked == [c EXCEPT !.orders =
                       Append(@, NewOrder(side, qty, now))]
    IN  [Call(booked, SubmitCall(TRUE, c, side, type, qty, limit, price))
            EXCEPT !.order = Len(booked.orders)]

Refuse(c, side, type, qty, limit, price) ==
    Call(c, SubmitCall(FALSE, c, side, type, qty, limit, price))

submit_buy(c, in) ==
    IF in.fail = "get_last_trade"
    THEN Raise(Call(c, ApiCall("get_last_trade", FALSE, c.state)))
    ELSE LET c1 == Call(c, ApiCall("get_last_trade", TRUE, c.state))
             amount == Lot \div in.price
         IN  IF in.fail = "submit_order"
             THEN transition(
                      Refuse(c1, "buy", "limit", amount, in.price, in.price),
                      "TO_BUY")
             ELSE transition(
                      Accept(c1, "buy", "limit", amount, in.price, in.price),
                      "BUY_SUBMITTED")

(* _submit_sell with the last-trade price taken as the limit price *)
submit_sell_at_last_price(c, bailout, in) ==
    IF c.position = NoPosition
    THEN Raise(Call(c, ApiCall("_position.qty", FALSE, c.state)))
    ELSE IF ~bailout /\ in.fail = "get_last_trade"
    THEN Raise(Call(c, ApiCall("get_last_trade", FALSE, c.state)))
    ELSE LET c1 == IF bailout THEN c
                   ELSE Call(c, ApiCall("get_last_trade", TRUE, c.state))
             qty == c.position.qty
             type == IF bailout THEN "market" ELSE "limit"
             current_price == IF bailout THEN 0 ELSE in.price
         IN  IF in.fail = "submit_order"
             THEN transition(
                      Refuse(c1, "sell", type, qty, current_price, current_price),
                      "TO_SELL")
             ELSE transition(
                      Accept(c1, "sell", type, qty, current_price, current_price),
                      "SELL_SUBMITTED")

(* _submit_sell.  Reading self._position.qty of a None position raises      *)
(* (AttributeError) before any brokerage call; it is recorded like a call.  *)
submit_sell(c, bailout, in) ==
    IF c.position = NoPosition
    THEN Raise(Call(c, ApiCall("_position.qty", FALSE, c.state)))
    ELSE IF ~bailout /\ in.fail = "get_last_trade"
    THEN Raise(Call(c, ApiCall("get_last_trade", FALSE, c.state)))
    ELSE LET c1 == IF bailout THEN c
                   ELSE Call(c, ApiCall("get_last_trade", TRUE, c.state))
             qty == c.position.qty
             type == IF bailout THEN "market" ELSE "limit"
             current_price == IF bailout THEN 0 ELSE in.price
             limit_price ==
                 IF bailout THEN 0
                 ELSE Max(c.position.avg_entry_price + MinIncrement,
                          current_price)
         IN  IF in.fail = "submit_order"
             THEN transition(
                      Refuse(c1, "sell", type, qty, limit_price, current_price),
                      "TO_SELL")
             ELSE transition(
                      Accept(c1, "sell", type, qty, limit_price, current_price),
                      "SELL_SUBMITTED")

(* self._api.cancel_order(id): a live order is canceled and the brokerage   *)
(* reports it on the stream; on an order already terminal it does nothing.  *)
BrokerCancelOrder(c, id) ==
    IF Live(c.orders[id])
    THEN [c EXCEPT !.orders[id].status = "canceled",
                   !.stream = Append(@, Update("canceled", id, c.orders))]
    ELSE c

cancel_order(c, in) ==
    IF c.order = NoOrder THEN c
    ELSE IF in.fail = "cancel_order"
    THEN Raise(Call(c, CancelCall(FALSE, c.state, c.order)))
    ELSE Call(BrokerCancelOrder(c, c.order), CancelCall(TRUE, c.state, c.order))

(* the condition of checkup's first if *)
Stale(c) ==
    /\ c.order # NoOrder
    /\ c.orders[c.order].side = "buy"
    /\ now - c.orders[c.order].submitted_at > StaleAfter

checkup(c, in) ==
    LET c1 == IF ~Stale(c) THEN c
              ELSE IF in.fail = "get_last_trade"
              THEN Raise(Call(c, ApiCall("get_last_trade", FALSE, c.state)))
              ELSE cancel_order(
                       Call(c, ApiCall("get_last_trade", TRUE, c.state)), in)
    IN  IF c1.raised THEN c1
        ELSE IF c1.position # NoPosition /\ outofmarket
        THEN submit_sell(c1, TRUE, in)
        ELSE c1

(* rolling(20).mean() is NaN before the 20th bar, and a comparison with NaN *)
(* is false; closes[i] < mavg[i] is compared on the window sums.            *)
RECURSIVE SumFrom(_, _, _)
SumFrom(b, lo, hi) == IF lo > hi THEN 0 ELSE b[lo] + SumFrom(b, lo + 1, hi)

WindowSum(b, i) == SumFrom(b, i - Window + 1, i)

Below(b, i) == i >= Window /\ Window * b[i] < WindowSum(b, i)
Above(b, i) == i >= Window /\ Window * b[i] > WindowSum(b, i)

(* _calc_buy_signal with <= for the comparison of closes[-2] *)
calc_buy_signal_not_strict(b) ==
    /\ Len(b) >= 2
    /\ ~Above(b, Len(b) - 1)
    /\ Len(b) - 1 >= Window
    /\ Above(b, Len(b))

calc_buy_signal(b) ==
    /\ Len(b) >= 2
    /\ Below(b, Len(b) - 1)
    /\ Above(b, Len(b))

(* on_bar without the return past the cutoff *)
on_bar_any_time(c, b, in) ==
    IF Len(b) < MinBars THEN c
    ELSE IF c.state = "TO_BUY" /\ calc_buy_signal(b)
    THEN submit_buy(c, in)
    ELSE c

(* on_bar, after the bar was appended to the history b *)
on_bar(c, b, in) ==
    IF Len(b) < MinBars THEN c
    ELSE IF outofmarket THEN c
    ELSE IF c.state = "TO_BUY" /\ calc_buy_signal(b)
    THEN submit_buy(c, in)
    ELSE c

(* self._api.get_position(symbol): NotFound when nothing is held *)
get_position(c, in) ==
    IF in.fail = "get_position" \/ held = 0
    THEN Raise(Call(c, ApiCall("get_position", FALSE, c.state)))
    ELSE [Call(c, ApiCall("get_position", TRUE, c.state))
             EXCEPT !.position = BrokerPosition(held, in.avg)]

(* self._api.get_order(order['id']) *)
get_order(c, id, in) ==
    IF in.fail = "get_order"
    THEN Raise(Call(c, ApiCall("get_order", FALSE, c.state)))
    ELSE [Call(c, ApiCall("get_order", TRUE, c.state)) EXCEPT !.order = id]

on_fill(c, in) ==
    LET c1 == [c EXCEPT !.order = NoOrder]
    IN  IF c1.state = "BUY_SUBMITTED"
        THEN LET c2 == get_position(c1, in)
             IN  IF c2.raised THEN c2
                 ELSE submit_sell(transition(c2, "TO_SELL"), FALSE, in)
        ELSE IF c1.state = "SELL_SUBMITTED"
        THEN transition([c1 EXCEPT !.position = NoPosition], "TO_BUY")
        ELSE c1

on_partial_fill(c, id, in) ==
    LET c1 == get_position(c, in)
    IN  IF c1.raised THEN c1 ELSE get_order(c1, id, in)

(* the canceled / rejected branch without the test of self._position *)
on_canceled_unguarded(c, in) ==
    LET c1 == [c EXCEPT !.order = NoOrder]
    IN  IF c1.state = "BUY_SUBMITTED"
        THEN submit_sell(transition(c1, "TO_SELL"), FALSE, in)
        ELSE IF c1.state = "SELL_SUBMITTED"
        THEN submit_sell(transition(c1, "TO_SELL"), TRUE, in)
        ELSE c1

on_canceled(c, in) ==
    LET c1 == [c EXCEPT !.order = NoOrder]
    IN  IF c1.state = "BUY_SUBMITTED"
        THEN IF c1.position # NoPosition
             THEN submit_sell(transition(c1, "TO_SELL"), FALSE, in)
             ELSE transition(c1, "TO_BUY")
        ELSE IF c1.state = "SELL_SUBMITTED"
        THEN submit_sell(transition(c1, "TO_SELL"), TRUE, in)
        ELSE c1

on_order_update(c, event, id, in) ==
    IF event = "fill" THEN on_fill(c, in)
    ELSE IF event = "partial_fill" THEN on_partial_fill(c, id, in)
    ELSE IF event \in {"canceled", "rejected"} THEN on_canceled(c, in)
    ELSE c

----------------------------------------------------------------------------
(* main: the fleet and what the event loop runs *)

(* args.symbols, in the order fleet.items() yields them *)
Fleet == <<"A", "B">>
Symbols == {Fleet[i] : i \in 1..Len(Fleet)}

(* what the Stream dispatches: a bar to on_bars, a trade update to          *)
(* on_trade_updates                                                         *)
Kinds == {"bar", "trade_update"}

NoSignal == [called |-> FALSE, result |-> FALSE]

(* Spec and SignalSpec leave the loop as it is before the first message *)
LoopAtRest ==
    /\ alive = TRUE
    /\ pending = [s \in Symbols |-> {}]
    /\ active = {}
    /\ sweep = <<>>
    /\ failed = {}

----------------------------------------------------------------------------
(* Actions *)

Start == Cutoff - OpenSpan
End == Cutoff + CloseSpan

SeedHistory == [i \in 1..SeedBars |-> SeedClose]

(* The brokerage's book for the symbol when the process starts: flat or     *)
(* holding, with no open order or one left by an earlier run.               *)
InitBooks ==
    {<<<<>>, 0>>, <<<<>>, 2>>,
     <<<<NewOrder("buy", 2, Start)>>, 0>>,
     <<<<[NewOrder("buy", 2, Start) EXCEPT !.filled = 1]>>, 1>>,
     <<<<NewOrder("sell", 2, Start)>>, 2>>,
     <<<<NewOrder("sell", 2, Start)>>, 0>>}

(* __init__: the cached order and position come from list_orders() and      *)
(* list_positions(), the state from _init_state.                            *)
Construct(os, h, avg) ==
    /\ order' = list_orders(os)
    /\ position' = BrokerPosition(h, avg)
    /\ state' = init_state(list_orders(os), BrokerPosition(h, avg))
    /\ hist' = [NoHist EXCEPT !.op = "init",
                   !.calls = <<ApiCall("list_orders", TRUE, "-"),
                               ApiCall("list_positions", TRUE, "-")>>]

Init ==
    \E book \in InitBooks, avg \in EntryPrices :
        /\ orders = book[1]
        /\ held = book[2]
        /\ stream = <<>>
        /\ now = Start
        /\ bars = SeedHistory
        /\ order = list_orders(book[1])
        /\ position = BrokerPosition(book[2], avg)
        /\ state = init_state(list_orders(book[1]), BrokerPosition(book[2], avg))
        /\ hist = [NoHist EXCEPT !.op = "init",
                      !.calls = <<ApiCall("list_orders", TRUE, "-"),
                                  ApiCall("list_positions", TRUE, "-")>>]
        /\ LoopAtRest
        /\ signal = NoSignal

(* The process is started again: a new ScalpAlgo is constructed against the *)
(* brokerage as it is now; updates in flight on the old stream are lost.    *)
Restart ==
    \E avg \in EntryPrices :
        /\ Construct(orders, held, avg)
        /\ stream' = <<>>
        /\ orders' = Archive(orders, order', stream')
        /\ UNCHANGED <<bars, now, held, loop, signal>>

(* What is recorded of a handler that ran from c0 to c *)
Hist(op, event, id, c0, c) ==
    [op |-> op, event |-> event, id |-> id,
     side |-> IF id = 0 THEN "-" ELSE c0.orders[id].side,
     pre |-> [state |-> c0.state, order |-> c0.order, stale |-> Stale(c0)],
     calls |-> c.calls, trans |-> c.trans, raised |-> c.raised]

(* A handler ran from Ctx to c *)
Ran(op, event, id, c) ==
    /\ Len(c.orders) <= MaxOrders
    /\ Len(c.stream) <= MaxStream
    /\ state' = c.state
    /\ order' = c.order
    /\ position' = c.position
    /\ orders' = Archive(c.orders, c.order, c.stream)
    /\ stream' = c.stream
    /\ hist' = Hist(op, event, id, Ctx, c)

OnBar ==
    \E close \in Closes,
       in \in Answers({"none", "get_last_trade", "submit_order"}) :
        /\ Len(bars) < MaxBars
        /\ bars' = Append(bars, close)
        /\ Ran("on_bar", "-", 0, on_bar(Ctx, Append(bars, close), in))
        /\ UNCHANGED <<now, held, loop, signal>>

(* The stream delivers its oldest update to on_trade_updates *)
OnOrderUpdate ==
    \E in \in Answers(Fails \ {"cancel_order"}) :
        /\ stream # <<>>
        /\ LET event == Head(stream).event
               id == Head(stream).id
               c0 == [Ctx EXCEPT !.stream = Tail(stream)]
           IN  Ran("on_order_update", event, id,
                   on_order_update(c0, event, id, in))
        /\ UNCHANGED <<bars, now, held, loop, signal>>

(* One symbol's share of a periodic() sweep *)
Checkup ==
    \E in \in Answers({"none", "get_last_trade", "cancel_order",
                        "submit_order"}) :
        /\ in.price = Lot \div 2
        /\ Ran("checkup", "-", 0, checkup(Ctx, in))
        /\ UNCHANGED <<bars, now, held, loop, signal>>

Tick ==
    /\ now < End
    /\ now' = now + 1
    /\ hist' = NoHist
    /\ UNCHANGED <<state, order, position, bars, orders, held, stream, loop,
                   signal>>

(* The brokerage executes, cancels or rejects a live order.  The account is *)
(* long only: a sell executes against shares that are held.                 *)
Remaining(o) == o.qty - o.filled

CanExecute(o, n) ==
    /\ Live(o)
    /\ n <= Remaining(o)
    /\ o.side = "sell" => n <= held

Execute(id, n, event) ==
    /\ Len(stream) < MaxStream
    /\ CanExecute(orders[id], n)
    /\ stream' = Append(stream, Update(event, id, orders))
    /\ orders' = Archive([orders EXCEPT ![id].filled = @ + n,
                              ![id].status = IF n = Remaining(orders[id])
                                             THEN "filled" ELSE "live"],
                         order, stream')
    /\ held' = IF orders[id].side = "buy" THEN held + n ELSE held - n
    /\ hist' = NoHist
    /\ UNCHANGED <<state, order, position, bars, now, loop, signal>>

BrokerFill ==
    \E id \in 1..Len(orders) : Execute(id, Remaining(orders[id]), "fill")

BrokerPartialFill ==
    \E id \in 1..Len(orders) :
        /\ Remaining(orders[id]) > 1
        /\ Execute(id, 1, "partial_fill")

Terminate(id, status) ==
    /\ Len(stream) < MaxStream
    /\ Live(orders[id])
    /\ stream' = Append(stream, Update(status, id, orders))
    /\ orders' = Archive([orders EXCEPT ![id].status = status], order, stream')
    /\ hist' = NoHist
    /\ UNCHANGED <<state, order, position, bars, now, held, loop, signal>>

BrokerCancel == \E id \in 1..Len(orders) : Terminate(id, "canceled")

BrokerReject ==
    \E id \in 1..Len(orders) :
        /\ orders[id].filled = 0
        /\ Terminate(id, "rejected")

Next ==
    \/ Restart
    \/ OnBar
    \/ OnOrderUpdate
    \/ Checkup
    \/ Tick
    \/ BrokerFill
    \/ BrokerPartialFill
    \/ BrokerCancel
    \/ BrokerReject

Spec == Init /\ [][Next]_vars

----------------------------------------------------------------------------
(* main's event loop over the fleet.  The handlers are plain calls made     *)
(* from coroutines of one asyncio loop and the brokerage calls inside them  *)
(* are synchronous REST calls: a handler that has started keeps the loop's  *)
(* thread until it returns or raises.                                       *)

(* The brokerage calls a handler makes when each of them returns, by the    *)
(* branch it takes                                                          *)
Paths(op) ==
    CASE op = "on_bar" ->
            {<<>>, <<"get_last_trade", "submit_order">>}
      [] op = "on_order_update" ->
            {<<>>,
             <<"get_position", "get_last_trade", "submit_order">>,
             <<"get_position", "get_order">>,
             <<"get_last_trade", "submit_order">>,
             <<"submit_order">>}
      [] op = "checkup" ->
            {<<>>, <<"submit_order">>,
             <<"get_last_trade", "cancel_order">>,
             <<"get_last_trade", "cancel_order", "submit_order">>}

Handler(s, op, task, path) ==
    [sym |-> s, op |-> op, task |-> task, todo |-> path, in_call |-> FALSE]

(* The machines are not followed in LoopSpec and SignalSpec *)
MachineAtRest ==
    /\ state = "TO_BUY"
    /\ order = NoOrder
    /\ position = NoPosition
    /\ now = Start
    /\ orders = <<>>
    /\ held = 0
    /\ stream = <<>>
    /\ hist = NoHist

LoopInit ==
    /\ LoopAtRest
    /\ MachineAtRest
    /\ bars = SeedHistory
    /\ signal = NoSignal

(* the loop's thread, were the brokerage calls awaited *)
LoopFreeWhileAwaiting == \A h \in active : h.in_call

(* the loop's thread runs no handler *)
LoopFree == active = {}

(* The Stream receives a message for a subscribed symbol *)
Receive ==
    \E s \in Symbols, kind \in Kinds :
        /\ alive
        /\ kind \notin pending[s]
        /\ pending' = [pending EXCEPT ![s] = @ \cup {kind}]
        /\ UNCHANGED <<alive, active, sweep, failed, machine, bars, signal>>

Dispatch(s, kind, op, path) ==
    /\ alive
    /\ LoopFree
    /\ sweep = <<>>
    /\ kind \in pending[s]
    /\ pending' = [pending EXCEPT ![s] = @ \ {kind}]
    /\ active' = active \cup {Handler(s, op, "stream", path)}
    /\ UNCHANGED <<alive, sweep, failed, machine, bars, signal>>

on_bars ==
    \E s \in Symbols, path \in Paths("on_bar") :
        Dispatch(s, "bar", "on_bar", path)

on_trade_updates ==
    \E s \in Symbols, path \in Paths("on_order_update") :
        Dispatch(s, "trade_update", "on_order_update", path)

(* periodic wakes from asyncio.sleep(30) and enters its for loop *)
PeriodicSweep ==
    /\ alive
    /\ LoopFree
    /\ sweep = <<>>
    /\ sweep' = Fleet
    /\ UNCHANGED <<alive, pending, active, failed, machine, bars, signal>>

(* the next algo.checkup(...) of the for loop *)
PeriodicCheckup ==
    \E path \in Paths("checkup") :
        /\ alive
        /\ LoopFree
        /\ sweep # <<>>
        /\ active' = active \cup {Handler(Head(sweep), "checkup", "periodic", path)}
        /\ sweep' = Tail(sweep)
        /\ UNCHANGED <<alive, pending, failed, machine, bars, signal>>

(* A handler enters its next brokerage call and waits for the answer *)
CallBegin ==
    \E h \in active :
        /\ alive
        /\ ~h.in_call
        /\ h.todo # <<>>
        /\ active' = (active \ {h}) \cup {[h EXCEPT !.in_call = TRUE]}
        /\ UNCHANGED <<alive, pending, sweep, failed, machine, bars, signal>>

CallReturn ==
    \E h \in active :
        /\ alive
        /\ h.in_call
        /\ active' = (active \ {h})
                         \cup {[h EXCEPT !.in_call = FALSE, !.todo = Tail(@)]}
        /\ UNCHANGED <<alive, pending, sweep, failed, machine, bars, signal>>

(* The call raises.  submit_order is inside try/except: the handler logs    *)
(* and returns.  Any other call is outside: the exception leaves the        *)
(* handler.  From checkup it leaves periodic, asyncio.gather and            *)
(* run_until_complete, and main ends.  From on_bars and on_trade_updates it *)
(* reaches the Stream's own loop (_run_forever), which logs it and goes on  *)
(* consuming.                                                               *)
CallRaise ==
    \E h \in active :
        /\ alive
        /\ h.in_call
        /\ active' = active \ {h}
        /\ IF Head(h.todo) = "submit_order"
           THEN UNCHANGED <<alive, failed>>
           ELSE /\ failed' = failed \cup {h.sym}
                /\ alive' = (h.task = "stream")
        /\ UNCHANGED <<pending, sweep, machine, bars, signal>>

(* The handler returns *)
Return ==
    \E h \in active :
        /\ alive
        /\ ~h.in_call
        /\ h.todo = <<>>
        /\ active' = active \ {h}
        /\ UNCHANGED <<alive, pending, sweep, failed, machine, bars, signal>>

LoopNext ==
    \/ Receive
    \/ on_bars
    \/ on_trade_updates
    \/ PeriodicSweep
    \/ PeriodicCheckup
    \/ CallBegin
    \/ CallReturn
    \/ CallRaise
    \/ Return

LoopSpec == LoopInit /\ [][LoopNext]_vars

----------------------------------------------------------------------------
(* _calc_buy_signal over bar histories: the day's seed followed by bars     *)
(* with any of SignalCloses as close                                        *)

SignalBars == 22
SignalCloses == 98..102

SignalInit ==
    /\ bars = SeedHistory
    /\ signal = NoSignal
    /\ LoopAtRest
    /\ MachineAtRest

(* on_bar appends the bar to the history *)
SignalBar ==
    \E close \in SignalCloses :
        /\ Len(bars) < SignalBars
        /\ bars' = Append(bars, close)
        /\ signal' = NoSignal
        /\ UNCHANGED <<machine, loop>>

Evaluate ==
    /\ Len(bars) >= 2
    /\ ~signal.called
    /\ signal' = [called |-> TRUE, result |-> calc_buy_signal(bars)]
    /\ UNCHANGED <<machine, loop, bars>>

SignalNext == SignalBar \/ Evaluate

SignalSpec == SignalInit /\ [][SignalNext]_vars

----------------------------------------------------------------------------
(* What the last handler did *)

CallsOf(api) == {k \in 1..Len(hist.calls) : hist.calls[k].api = api}

Submitted(side) ==
    {k \in CallsOf("submit_order") : hist.calls[k].side = side}

AllReturned ==
    ~hist.raised /\ \A k \in 1..Len(hist.calls) : hist.calls[k].ok

----------------------------------------------------------------------------
(* C1: at most one order of the symbol is live at the brokerage (neither    *)
(* filled, canceled nor rejected) in every reachable state.                 *)
AtMostOneLiveOrder == Cardinality(LiveIds(orders)) <= 1

(* C2: between handler invocations the cached order is null in TO_BUY and   *)
(* TO_SELL and non-null in BUY_SUBMITTED and SELL_SUBMITTED, also after a   *)
(* handler in which a broker call raised.  (The claim adds that the order   *)
(* has the side of the state; the statement without the sides fails.)       *)
StateAgreesWithOrder ==
    /\ state \in {"TO_BUY", "TO_SELL"} => order = NoOrder
    /\ state \in {"BUY_SUBMITTED", "SELL_SUBMITTED"} => order # NoOrder

(* C3: right after construction the state is the one the reconciliation     *)
(* table gives for (position present, open order present) at the brokerage, *)
(* the cached order is that open order, and construction made no            *)
(* submit_order and no cancel_order call.                                   *)
ConstructionReconciles ==
    hist.op = "init" =>
        /\ state = CASE held > 0 /\ LiveIds(orders) = {} -> "TO_SELL"
                     [] held > 0 /\ LiveIds(orders) # {} -> "SELL_SUBMITTED"
                     [] held = 0 /\ LiveIds(orders) = {} -> "TO_BUY"
                     [] held = 0 /\ LiveIds(orders) # {} -> "BUY_SUBMITTED"
        /\ (order = NoOrder) = (LiveIds(orders) = {})
        /\ (position = NoPosition) = (held = 0)
        /\ CallsOf("submit_order") = {}
        /\ CallsOf("cancel_order") = {}

(* C3 witness: a machine constructed while a position is held and a buy     *)
(* order is open (the side mismatch the reconciliation only warns about).   *)
ConstructedOverOpenBuy ==
    /\ hist.op = "init"
    /\ held > 0
    /\ order # NoOrder
    /\ orders[order].side = "buy"
    /\ state = "SELL_SUBMITTED"

(* C4: every buy submission is made by on_bar, from TO_BUY, with at least   *)
(* 21 bars in the history (the new bar included), before the cutoff, on a   *)
(* true signal.                                                             *)
BuyOnlyFromOnBar ==
    Submitted("buy") # {} =>
        /\ hist.op = "on_bar"
        /\ hist.pre.state = "TO_BUY"
        /\ Len(bars) >= MinBars
        /\ now < Cutoff
        /\ calc_buy_signal(bars)

(* C4 witness: on_bar has just had a buy order accepted. *)
BuySubmitted ==
    /\ hist.op = "on_bar"
    /\ \E k \in Submitted("buy") : hist.calls[k].ok
    /\ state = "BUY_SUBMITTED"

(* C5: the fill event of a buy order, when every broker call of the handler *)
(* returns, submits exactly one limit sell and ends in SELL_SUBMITTED; the  *)
(* fill event of a sell order clears the cached position and order and ends *)
(* in TO_BUY.                                                               *)
FillDrivenRoundTrip ==
    hist.op = "on_order_update" /\ hist.event = "fill" /\ AllReturned =>
        /\ hist.side = "buy" =>
              /\ Cardinality(CallsOf("submit_order")) = 1
              /\ \A k \in CallsOf("submit_order") :
                    hist.calls[k].side = "sell" /\ hist.calls[k].type = "limit"
              /\ state = "SELL_SUBMITTED"
        /\ hist.side = "sell" =>
              /\ position = NoPosition
              /\ order = NoOrder
              /\ state = "TO_BUY"

(* C6: a canceled or rejected event handled in SELL_SUBMITTED moves to      *)
(* TO_SELL, submits one market sell for the cached position's quantity and  *)
(* ends in SELL_SUBMITTED with that order outstanding.                      *)
CanceledSellIsResubmitted ==
    /\ hist.op = "on_order_update"
    /\ hist.event \in {"canceled", "rejected"}
    /\ hist.pre.state = "SELL_SUBMITTED"
    => /\ hist.trans # <<>>
       /\ hist.trans[1] = <<"SELL_SUBMITTED", "TO_SELL">>
       /\ Cardinality(CallsOf("submit_order")) = 1
       /\ \A k \in CallsOf("submit_order") :
             /\ hist.calls[k].side = "sell"
             /\ hist.calls[k].type = "market"
             /\ hist.calls[k].qty = position.qty
       /\ state = "SELL_SUBMITTED"
       /\ order # NoOrder

(* C7: a checkup at or after the cutoff with a (cached) position submits a  *)
(* market sell for its full quantity, whatever the state; a checkup before  *)
(* the cutoff submits no sell.                                              *)
CheckupBailsOut ==
    hist.op = "checkup" =>
        /\ now >= Cutoff /\ position # NoPosition =>
              \E k \in Submitted("sell") :
                  /\ hist.calls[k].type = "market"
                  /\ hist.calls[k].qty = position.qty
        /\ now < Cutoff => Submitted("sell") = {}

(* C8: a checkup calls cancel_order exactly once, on the cached order, when *)
(* that order is a buy submitted more than 2 minutes before, and never      *)
(* otherwise; no other handler calls cancel_order.                          *)
CancelOnlyStaleBuy ==
    /\ hist.op = "checkup" /\ hist.pre.stale =>
          /\ Cardinality(CallsOf("cancel_order")) = 1
          /\ \A k \in CallsOf("cancel_order") :
                hist.calls[k].id = hist.pre.order
    /\ hist.op = "checkup" /\ ~hist.pre.stale => CallsOf("cancel_order") = {}
    /\ hist.op # "checkup" => CallsOf("cancel_order") = {}

(* C9: a handler whose submit_order call raised ends in the state the       *)
(* machine had when the call was made, TO_BUY for a buy and TO_SELL for a   *)
(* sell, with the cached order and position it had then, and made that one  *)
(* submission only.                                                         *)
FailedSubmitReverts ==
    \A k \in CallsOf("submit_order") :
        ~hist.calls[k].ok =>
            /\ state = hist.calls[k].st
            /\ state = IF hist.calls[k].side = "buy" THEN "TO_BUY" ELSE "TO_SELL"
            /\ order = hist.calls[k].order
            /\ position = hist.calls[k].position
            /\ CallsOf("submit_order") = {k}

(* C10: every change of state a handler makes is an edge of the table.      *)
Edges ==
    {<<"TO_BUY", "BUY_SUBMITTED">>,
     <<"BUY_SUBMITTED", "TO_SELL">>, <<"BUY_SUBMITTED", "TO_BUY">>,
     <<"TO_SELL", "SELL_SUBMITTED">>,
     <<"SELL_SUBMITTED", "TO_BUY">>, <<"SELL_SUBMITTED", "TO_SELL">>}

TransitionsFollowTable ==
    \A k \in 1..Len(hist.trans) :
        hist.trans[k][1] # hist.trans[k][2] => hist.trans[k] \in Edges

----------------------------------------------------------------------------
(* C11: an exception that went uncaught in the handling of one symbol does  *)
(* not end the processing of the others: whenever some symbol's handler has *)
(* failed, the loop is still running, so that the bars, trade updates and   *)
(* checkups of every other symbol are still dispatched.                     *)
UncaughtFailureIsScoped ==
    \A a \in failed : \A b \in Symbols \ {a} : alive

(* Messages for symbol s can be dispatched to its handler *)
Deliver(s) ==
    \/ \E path \in Paths("on_bar") : Dispatch(s, "bar", "on_bar", path)
    \/ \E path \in Paths("on_order_update") :
           Dispatch(s, "trade_update", "on_order_update", path)

(* C12: the handlers of one symbol never overlap: of on_bar,                *)
(* on_order_update and checkup for the same symbol at most one invocation   *)
(* has started and not ended, its brokerage calls included.                 *)
HandlersSerialized ==
    \A h1, h2 \in active : h1.sym = h2.sym => h1 = h2

(* C12 witness: a handler waits inside a brokerage call while another       *)
(* message for the same symbol is pending.                                  *)
BlockedWithOwnMessagePending ==
    \E h \in active : h.in_call /\ pending[h.sym] # {}

(* C13: while a handler for one symbol waits inside a brokerage call, a     *)
(* pending bar or trade update of another symbol can be dispatched.         *)
SlowCallStallsNobody ==
    \A h \in active : \A b \in Symbols \ {h.sym} :
        alive /\ h.in_call /\ pending[b] # {} => ENABLED Deliver(b)

(* C14: the signal is true exactly when the second-to-last close is         *)
(* strictly below the average of the 20 closes ending at it and the last    *)
(* close is strictly above the average of the 20 closes ending at it; it is *)
(* false on every history that never falls or never rises.                  *)
RECURSIVE SeqSum(_)
SeqSum(q) == IF q = <<>> THEN 0 ELSE Head(q) + SeqSum(Tail(q))

Sma20Times20(b, i) == SeqSum(SubSeq(b, i - 19, i))

Crossover(b) ==
    LET n == Len(b)
    IN  /\ n >= 21
        /\ 20 * b[n - 1] < Sma20Times20(b, n - 1)
        /\ 20 * b[n] > Sma20Times20(b, n)

Monotonic(b) ==
    \/ \A i \in 1..(Len(b) - 1) : b[i] <= b[i + 1]
    \/ \A i \in 1..(Len(b) - 1) : b[i] >= b[i + 1]

SignalIsCrossover ==
    signal.called =>
        /\ signal.result <=> Crossover(bars)
        /\ Monotonic(bars) => ~signal.result

(* C14 witness: the signal was computed and is true. *)
SignalRaised == signal.called /\ signal.result

(* C15: every sell submitted outside a bailout (after a buy fill, or after  *)
(* a canceled or rejected buy that left a position) is a limit order for    *)
(* the whole quantity of the machine's position, which is the quantity the  *)
(* brokerage holds, at max(cost basis + 0.01, last-trade price), hence      *)
(* above the cost basis; every bailout sell (from checkup, or after a       *)
(* canceled or rejected sell) is a market order for the whole quantity of   *)
(* the machine's position, without a limit price.                           *)
NonBailout ==
    /\ hist.op = "on_order_update"
    /\ hist.event = "fill" \/ hist.pre.state = "BUY_SUBMITTED"

SellOrdersAsSpecified ==
    \A k \in Submitted("sell") :
        LET call == hist.calls[k]
        IN  /\ call.position # NoPosition
            /\ call.qty = call.position.qty
            /\ IF NonBailout
               THEN /\ call.type = "limit"
                    /\ call.qty = held
                    /\ call.limit_price =
                           Max(call.position.avg_entry_price + 1, call.price)
                    /\ call.limit_price > call.position.avg_entry_price
               ELSE /\ call.type = "market"
                    /\ call.limit_price = 0

(* C15 witness: a limit sell was accepted while the last trade was below    *)
(* the cost basis.                                                          *)
SellAboveCostBasis ==
    /\ NonBailout
    /\ \E k \in Submitted("sell") :
          /\ hist.calls[k].ok
          /\ hist.calls[k].price < hist.calls[k].position.avg_entry_price

(* C16: a machine constructed while a position is held and a buy order is   *)
(* open starts in BUY_SUBMITTED.                                            *)
PositionAndBuyOrderReconcile ==
    /\ hist.op = "init"
    /\ position # NoPosition
    /\ order # NoOrder
    /\ orders[order].side = "buy"
    => state = "BUY_SUBMITTED"

(* C17: when a handler has left the machine in TO_SELL, holding a position, *)
(* by a sell submission that raised, and the next thing to happen is a bar  *)
(* (the history holding 21 bars or more) or a checkup, whose brokerage      *)
(* calls all return, that handler submits a sell, at any time of day; when  *)
(* it was left in TO_BUY by a buy submission that raised and the next thing *)
(* is a bar in market hours with a true signal, that bar submits a buy.     *)
FailedSubmitIsRetried ==
    [][/\ /\ state = "TO_SELL"
          /\ position # NoPosition
          /\ \E k \in Submitted("sell") : ~hist.calls[k].ok
          /\ \/ hist'.op = "checkup"
             \/ hist'.op = "on_bar" /\ Len(bars') >= MinBars
          /\ AllReturned'
          => Submitted("sell")' # {}
       /\ /\ state = "TO_BUY"
          /\ \E k \in Submitted("buy") : ~hist.calls[k].ok
          /\ hist'.op = "on_bar"
          /\ AllReturned'
          /\ now' < Cutoff
          /\ calc_buy_signal(bars')
          => Submitted("buy")' # {}]_vars

(* C18: after a sweep at or after the cutoff whose brokerage calls all      *)
(* returned, shares of the symbol are not left held with no order working   *)
(* and no trade update in flight (from there on every sweep finds the same  *)
(* and no market sell is ever submitted).                                   *)
NoOvernightExposure ==
    ~ /\ hist.op = "checkup"
      /\ AllReturned
      /\ now >= Cutoff
      /\ held > 0
      /\ stream = <<>>
      /\ LiveIds(orders) = {}

(* C19: between handler invocations a machine in TO_BUY is flat: its cached *)
(* position is null and the brokerage holds nothing of the symbol.          *)
FlatInToBuy ==
    state = "TO_BUY" => position = NoPosition /\ held = 0

(* C20: between handler invocations a machine in TO_SELL or SELL_SUBMITTED  *)
(* has a cached position, and no handler enters the sell submission with a  *)
(* null cached position.                                                    *)
SellNeedsPosition ==
    /\ state \in {"TO_SELL", "SELL_SUBMITTED"} => position # NoPosition
    /\ CallsOf("_position.qty") = {}
    /\ \A k \in Submitted("sell") : hist.calls[k].position # NoPosition

(* C20 witness: the bailout resubmission after a canceled or rejected sell. *)
SellResubmitted ==
    /\ hist.op = "on_order_update"
    /\ hist.event \in {"canceled", "rejected"}
    /\ hist.pre.state = "SELL_SUBMITTED"
    /\ \E k \in Submitted("sell") : hist.calls[k].type = "market"

====
